---- MODULE Spec2Model ----
(***************************************************************************)
(* DatabricksWorkspaceAPI (src/src/main.py): a stateless client of the     *)
(* remote workspace service.  The state is the remote tree, the client's   *)
(* call stack (copy and search recurse), the requests issued so far and    *)
(* the outcome of the call.  One behaviour is one call of the client on    *)
(* one remote tree; every request is answered by the remote either as the  *)
(* tree dictates or, within a budget, with a fault.                        *)
(***************************************************************************)
EXTENDS Integers, Sequences, FiniteSets, TLC

\* ---------------------------------------------------------------- bounds
\* Deepest path the remote stores; a write below it is refused.
MaxDepth == 3
\* Responses per call that are not the one the tree dictates.
MaxFaults == 1

\* ------------------------------------------------------ program constants
HTTP_OK == 200
NOT_FOUND == 404
CONFLICT == 409
UNSUPPORTED == 400
INTERNAL == 500

\* ------------------------------------------------------------------ paths
\* A path "/a/b" is the sequence of its segments; the root is <<>>.
Names == <<"a", "b">>
NameSet == {Names[k] : k \in 1..Len(Names)}
Root == <<>>

RECURSIVE PathsUpTo(_)
PathsUpTo(n) ==
  IF n = 0 THEN {Root}
  ELSE LET P == PathsUpTo(n - 1)
       IN  P \cup {Append(p, x) : p \in {q \in P : Len(q) = n - 1}, x \in NameSet}

PathSpace == PathsUpTo(MaxDepth)

IsPrefix(p, q) == Len(p) <= Len(q) /\ SubSeq(q, 1, Len(p)) = p
Parent(p) == SubSeq(p, 1, Len(p) - 1)
\* item_path.split("/")[-1]
LastSegment(p) == p[Len(p)]
\* f"{destination_path}/{item_name}"
JoinPath(dir, name) == Append(dir, name)

\* ------------------------------------------------------ the remote tree
ObjectTypes == {"NOTEBOOK", "DIRECTORY", "LIBRARY", "REPO", "FILE"}
Absent == [type |-> "ABSENT", language |-> "NONE", content |-> <<>>]
Directory == [type |-> "DIRECTORY", language |-> "NONE", content |-> <<>>]
Notebook(lang, text) == [type |-> "NOTEBOOK", language |-> lang, content |-> text]
Library == [type |-> "LIBRARY", language |-> "NONE", content |-> <<>>]

Lookup(r, p) == IF p \in DOMAIN r THEN r[p] ELSE Absent
Exists(r, p) == Lookup(r, p).type # "ABSENT"
IsDir(r, p) == Lookup(r, p).type = "DIRECTORY"

\* Base64 on the wire: content.encode() -> b64encode -> decode, and back.
B64Encode(text) == [b64 |-> text]
B64Decode(wire) == wire.b64

\* ------------------------------------------------------ response bodies
EmptyBody == [tag |-> "empty"]
TextBody == [tag |-> "text", text |-> "raw"]
\* A response with no body at all.
EmptyTextBody == [tag |-> "text", text |-> ""]
ErrBody(code, msg) == [tag |-> "error", error_code |-> code, message |-> msg]
AclBody == [tag |-> "acl"]
ObjectInfo(r, p) ==
  [tag |-> "object", path |-> p, object_type |-> Lookup(r, p).type,
   language |-> Lookup(r, p).language]
ExportBody(text) == [tag |-> "export", content |-> B64Encode(text)]

\* The objects directly under p, in the remote's listing order.
ChildrenOf(r, p) ==
  LET F[k \in 0..Len(Names)] ==
        IF k = 0 THEN <<>>
        ELSE IF Exists(r, Append(p, Names[k]))
             THEN Append(F[k - 1], ObjectInfo(r, Append(p, Names[k])))
             ELSE F[k - 1]
  IN  F[Len(Names)]

ListBody(objs) == IF objs = <<>> THEN EmptyBody ELSE [tag |-> "list", objects |-> objs]

\* ------------------------------------------------------------- requests
Req(ep, p) ==
  [ep |-> ep, path |-> p, dest |-> Root, language |-> "NONE",
   content |-> B64Encode(<<>>), format |-> "SOURCE", overwrite |-> FALSE,
   recursive |-> FALSE]

Resp(s, b, applied) == [status |-> s, body |-> b, transport |-> "ok", applied |-> applied]
TransportError == [status |-> 0, body |-> EmptyBody, transport |-> "error", applied |-> FALSE]

Denied(code) == Resp(UNSUPPORTED, ErrBody(code, "m"), FALSE)
Missing == Resp(NOT_FOUND, ErrBody("RESOURCE_DOES_NOT_EXIST", "m"), FALSE)
Done(b) == Resp(HTTP_OK, b, TRUE)

\* Some proper prefix of p (or p itself) is an object that is no directory.
BlockedBy(r, p) == \E k \in 1..Len(p) : LET q == SubSeq(p, 1, k)
                                       IN Exists(r, q) /\ ~IsDir(r, q)

\* Deepest object at or below p, relative to p.
SubtreeDepth(r, p) ==
  LET D == {Len(q) - Len(p) : q \in {x \in DOMAIN r : IsPrefix(p, x) /\ Exists(r, x)}}
  IN  IF D = {} THEN 0 ELSE CHOOSE d \in D : \A e \in D : e <= d

\* --------------------------------------------- the remote's own answers
\* What the remote answers to a request when nothing goes wrong on the way.
Genuine(r, req) ==
  LET p == req.path
      o == Lookup(r, p)
  IN
  CASE req.ep = "get-status" ->
         IF Exists(r, p) THEN Done(ObjectInfo(r, p)) ELSE Missing
    [] req.ep = "list" ->
         IF ~Exists(r, p) THEN Missing
         ELSE IF IsDir(r, p) THEN Done(ListBody(ChildrenOf(r, p)))
         ELSE Done(EmptyBody)
    [] req.ep = "mkdirs" ->
         IF Len(p) > MaxDepth \/ BlockedBy(r, p)
         THEN Denied("INVALID_PARAMETER_VALUE")
         ELSE Done(EmptyBody)
    [] req.ep = "export" ->
         IF ~Exists(r, p) THEN Missing
         ELSE IF o.type = "NOTEBOOK" THEN Done(ExportBody(o.content))
         ELSE Denied("INVALID_PARAMETER_VALUE")
    [] req.ep = "import" ->
         IF p = Root \/ Len(p) > MaxDepth THEN Denied("INVALID_PARAMETER_VALUE")
         ELSE IF ~IsDir(r, Parent(p)) THEN Missing
         ELSE IF Exists(r, p) /\ ~req.overwrite
              THEN Resp(CONFLICT, ErrBody("RESOURCE_ALREADY_EXISTS", "m"), FALSE)
         ELSE IF Exists(r, p) /\ o.type # "NOTEBOOK"
              THEN Denied("INVALID_PARAMETER_VALUE")
         ELSE Done(EmptyBody)
    [] req.ep = "delete" ->
         IF ~Exists(r, p) THEN Missing
         ELSE IF p = Root THEN Denied("INVALID_PARAMETER_VALUE")
         ELSE IF IsDir(r, p) /\ ChildrenOf(r, p) # <<>> /\ ~req.recursive
              THEN Denied("DIRECTORY_NOT_EMPTY")
         ELSE Done(EmptyBody)
    [] req.ep = "move" ->
         IF ~Exists(r, p) THEN Missing
         ELSE IF p = Root \/ req.dest = Root \/ IsPrefix(p, req.dest)
                 \/ Len(req.dest) + SubtreeDepth(r, p) > MaxDepth
              THEN Denied("INVALID_PARAMETER_VALUE")
         ELSE IF ~IsDir(r, Parent(req.dest)) THEN Missing
         ELSE IF Exists(r, req.dest) /\ ~req.overwrite
              THEN Resp(CONFLICT, ErrBody("RESOURCE_ALREADY_EXISTS", "m"), FALSE)
         ELSE Done(EmptyBody)
    [] req.ep = "permissions" ->
         IF Exists(r, p) THEN Done(AclBody) ELSE Missing
    [] req.ep = "permissions-update" -> Done(AclBody)
    [] OTHER -> Denied("ENDPOINT_NOT_FOUND")

\* The tree after the remote has carried the request out.
Effect(r, req) ==
  LET p == req.path IN
  CASE req.ep = "mkdirs" ->
         [q \in DOMAIN r |-> IF IsPrefix(q, p) THEN Directory ELSE r[q]]
    [] req.ep = "import" ->
         [q \in DOMAIN r |->
            IF q = p THEN Notebook(req.language, B64Decode(req.content)) ELSE r[q]]
    [] req.ep = "delete" ->
         [q \in DOMAIN r |-> IF IsPrefix(p, q) THEN Absent ELSE r[q]]
    [] req.ep = "move" ->
         [q \in DOMAIN r |->
            IF IsPrefix(req.dest, q)
            THEN Lookup(r, p \o SubSeq(q, Len(req.dest) + 1, Len(q)))
            ELSE IF IsPrefix(p, q) THEN Absent ELSE r[q]]
    [] OTHER -> r

\* Statuses a fault may carry while copy, search or exists runs, and the wider
\* set tried on a single primitive call.
FaultStatuses == {403, 500}
WideStatuses == {201, 204, 300, 304, 400, 403, 404, 409, 500, 503}

\* Error bodies a failing response may carry.
ErrorBodies ==
  {ErrBody("BAD", "m"), ErrBody("NONE", "m"), ErrBody("BAD", "NONE"),
   ErrBody("NONE", "NONE"), TextBody, EmptyTextBody}

\* Answers other than the genuine one: an error status, a 2xx other than 200
\* with the genuine body, a 3xx without a JSON body, no answer at all.
FaultResponses(r, req, wide) ==
  LET g == Genuine(r, req)
      S == IF wide THEN WideStatuses ELSE FaultStatuses \cup {201, 304}
      B == IF wide THEN ErrorBodies ELSE {ErrBody("BAD", "m")}
  IN  {Resp(s, b, FALSE) : s \in {x \in S : x >= 400}, b \in B}
      \cup {Resp(s, TextBody, FALSE) : s \in {x \in S : x >= 300 /\ x < 400}}
      \cup {Resp(s, g.body, g.applied) : s \in {x \in S : x < 300 /\ g.status = HTTP_OK}}
      \cup {TransportError}

\* ------------------------------------------------- outcomes of a call
\* Values are tagged so that any two can be compared.
NoneValue == [tag |-> "none"]
BoolValue(b) == [tag |-> "bool", b |-> b]
TextValue(t) == [tag |-> "text", text |-> t]
JsonValue(body) == [tag |-> "json", body |-> body]
ListValue(items) == [tag |-> "list", items |-> items]

\* DatabricksAPIError(status_code, message); a message is a tag and its
\* arguments (a sequence of strings).
APIError(s, tag, args) ==
  [type |-> "DatabricksAPIError", status_code |-> s, message |-> [tag |-> tag, args |-> args]]
\* Any other exception: a transport failure, a body that is no JSON, None.encode().
OtherError(tag) ==
  [type |-> "Exception", status_code |-> 0, message |-> [tag |-> tag, args |-> <<>>]]
NoError == [type |-> "none", status_code |-> 0, message |-> [tag |-> "none", args |-> <<>>]]

Return(v) == [kind |-> "return", value |-> v, err |-> NoError]
Raise(e) == [kind |-> "raise", value |-> NoneValue, err |-> e]
Pending == [kind |-> "none", value |-> NoneValue, err |-> NoError]

IsAPIError(e) == e.type = "DatabricksAPIError"

\* ------------------------------------------------------- _handle_response
\* Mutant: only server errors are raised.
RaisesForStatus_ServerOnly(s) == s >= 500 /\ s < 600

\* response.raise_for_status(): HTTPError for 4xx and 5xx, nothing otherwise.
RaisesForStatus(s) == s >= 400 /\ s < 600

\* response.text: the body as it came over the wire, as a sequence of tokens.
\* A JSON object carries the fields it has ("NONE": the field is not there).
ResponseText(body) ==
  IF body.tag = "text" THEN <<body.text>>
  ELSE IF body.tag = "error"
       THEN <<"{">>
            \o (IF body.error_code # "NONE" THEN <<"error_code", body.error_code>> ELSE <<>>)
            \o (IF body.message # "NONE" THEN <<"message", body.message>> ELSE <<>>)
            \o <<"}">>
       ELSE <<"{", body.tag, "}">>

\* Mutant: a JSON body without a message falls back to the response text.
ErrorMessage_TextWhenNoMessage(body) ==
  IF body.tag = "error" /\ body.message # "NONE"
  THEN IF body.error_code # "NONE"
       THEN [tag |-> "code_and_message", args |-> <<body.error_code, body.message>>]
       ELSE [tag |-> "message", args |-> <<body.message>>]
  ELSE IF body.tag = "text" /\ body.text = ""
       THEN [tag |-> "http_error", args |-> <<>>]
       ELSE [tag |-> "response_text", args |-> ResponseText(body)]

\* The message _handle_response builds from the body of a failed response:
\* "Unknown error" unless the JSON body has a message; response.text or str(e)
\* when the body is no JSON.
ErrorMessage(body) ==
  IF body.tag = "error"
  THEN IF body.error_code # "NONE" /\ body.message # "NONE"
       THEN [tag |-> "code_and_message", args |-> <<body.error_code, body.message>>]
       ELSE IF body.message # "NONE"
            THEN [tag |-> "message", args |-> <<body.message>>]
            ELSE [tag |-> "unknown_error", args |-> <<>>]
  ELSE IF body.tag = "text"
       THEN IF body.text # ""
            THEN [tag |-> "response_text", args |-> ResponseText(body)]
            ELSE [tag |-> "http_error", args |-> <<>>]
       ELSE [tag |-> "unknown_error", args |-> <<>>]

\* Return(response) or Raise(DatabricksAPIError(response.status_code, msg)).
HandleResponse(resp) ==
  IF RaisesForStatus(resp.status)
  THEN Raise([type |-> "DatabricksAPIError", status_code |-> resp.status,
              message |-> ErrorMessage(resp.body)])
  ELSE Return(JsonValue(resp.body))

\* response.json() on a response that was not raised.
ParsedBody(resp) ==
  IF resp.body.tag = "text" THEN Raise(OtherError("JSONDecodeError"))
  ELSE Return(JsonValue(resp.body))

\* response.status_code == 200
StatusIs200(resp) == Return(BoolValue(resp.status = HTTP_OK))

\* base64.b64decode(response.json()["content"]).decode() if status is 200 else None
ExportedContent(resp) ==
  IF resp.status = HTTP_OK
  THEN IF resp.body.tag = "export" THEN Return(TextValue(B64Decode(resp.body.content)))
       ELSE Raise(OtherError(IF resp.body.tag = "text" THEN "JSONDecodeError" ELSE "KeyError"))
  ELSE Return(NoneValue)

\* ------------------------------------------------------------ primitives
Primitives ==
  {"list_contents", "get_status", "delete", "create_directory", "import_notebook",
   "export_notebook", "get_permissions", "update_permissions", "move"}

\* What a primitive makes of the answer to its one request.
PrimitiveOutcome(name, resp) ==
  IF resp.transport = "error" THEN Raise(OtherError("ConnectionError"))
  ELSE LET h == HandleResponse(resp) IN
       IF h.kind = "raise" THEN h
       ELSE CASE name \in {"list_contents", "get_status", "get_permissions",
                           "update_permissions"} -> ParsedBody(resp)
              [] name \in {"delete", "create_directory", "import_notebook", "move"} ->
                   StatusIs200(resp)
              [] name = "export_notebook" -> ExportedContent(resp)

\* The request a primitive sends.
ListRequest(p) == Req("list", p)
StatusRequest(p) == Req("get-status", p)
DeleteRequest(p, recursive) == [Req("delete", p) EXCEPT !.recursive = recursive]
MkdirsRequest(p) == Req("mkdirs", p)
ImportRequest(p, language, text, overwrite) ==
  [Req("import", p) EXCEPT !.language = language, !.content = B64Encode(text),
                           !.overwrite = overwrite]
ExportRequest(p) == Req("export", p)
PermissionsRequest(p) == Req("permissions", p)
\* The PATCH carries the access control list only, no path.
UpdatePermissionsRequest(p) == Req("permissions-update", Root)
MoveRequest(p, d, overwrite) == [Req("move", p) EXCEPT !.dest = d, !.overwrite = overwrite]

\* ---------------------------------------------------------------- state
VARIABLES
  remote,     \* the remote tree: path -> object
  stack,      \* the client's call stack, innermost call last
  result,     \* the outcome of the outermost call, once it has ended
  log,        \* every request sent so far, with its answer
  faults,     \* answers so far that were not the genuine one
  completed,  \* every call that has ended, with its last frame and its outcome
  initial     \* the remote tree as it was when the call was made

vars == <<remote, stack, result, log, faults, completed, initial>>

DefaultFileTypes == {"NOTEBOOK", "DIRECTORY", "LIBRARY", "REPO"}
\* The file_types argument: None, or a list (its order plays no part).
NoFileTypes == [given |-> FALSE, types |-> {}]
FileTypes(T) == [given |-> TRUE, types |-> T]

\* file_types = file_types or ["NOTEBOOK", "DIRECTORY", "LIBRARY", "REPO"]
EffectiveFileTypes(arg) ==
  IF ~arg.given \/ arg.types = {} THEN DefaultFileTypes ELSE arg.types

\* A call's frame: its arguments, its locals, and (reqs, calls, rets) the
\* requests it sent itself, the calls it made and what they came back with.
Frame(op, path) ==
  [op |-> op, pc |-> "send", path |-> path, dest |-> Root, overwrite |-> FALSE,
   recursive |-> FALSE, arg |-> NoFileTypes, file_types |-> {}, source_info |-> EmptyBody,
   content |-> NoneValue, contents |-> <<>>, i |-> 1, success |-> TRUE,
   results |-> <<>>, reqs |-> <<>>, calls |-> <<>>, rets |-> <<>>]

Top == stack[Len(stack)]
ReplaceTop(stk, f) == [stk EXCEPT ![Len(stk)] = f]

\* What a step decides: go on in the same frame, make a call, or end the call.
Go(f) == [do |-> "continue", frame |-> f, outcome |-> Pending, child |-> f]
Call(f, child) == [do |-> "call", frame |-> f, outcome |-> Pending, child |-> child]
End(f, out) == [do |-> "finish", frame |-> f, outcome |-> out, child |-> f]

\* Mutant: every exception is wrapped, a DatabricksAPIError too.
Reraise_WrapsAll(op, e) ==
  APIError(INTERNAL, IF op = "copy" THEN "copy_failed" ELSE "search_failed",
           <<e.message.tag>>)

\* except Exception as e: a DatabricksAPIError is raised again as it is,
\* anything else becomes DatabricksAPIError(500, ...).
Reraise(op, e) ==
  IF IsAPIError(e) THEN e
  ELSE APIError(INTERNAL, IF op = "copy" THEN "copy_failed" ELSE "search_failed",
                <<e.message.tag>>)

\* Mutant: success is the last child's result, not the AND of all of them.
CopyResume_LastResult(p, out) ==
  [p EXCEPT !.success = out.value.b, !.i = @ + 1]

\* if not self.copy(...): success = False -- and on to the next item.
CopyResume(p, out) ==
  [p EXCEPT !.success = IF ~out.value.b THEN FALSE ELSE @, !.i = @ + 1]

\* results.extend(sub_results) -- and on to the next item.
SearchResume(p, out) ==
  [p EXCEPT !.results = @ \o out.value.items, !.i = @ + 1]

Resume(p, out) == IF p.op = "copy" THEN CopyResume(p, out) ELSE SearchResume(p, out)

\* The call on top of stk ends with out: a value goes to the caller, which
\* goes on; an exception goes through the caller's except clause and ends
\* the caller too, and so on outwards.
RECURSIVE Unwind(_, _, _)
Unwind(stk, out, comp) ==
  LET f == stk[Len(stk)]
      rest == SubSeq(stk, 1, Len(stk) - 1)
      comp2 == Append(comp, [frame |-> f, outcome |-> out])
  IN  IF rest = <<>>
      THEN [stack |-> <<>>, result |-> out, completed |-> comp2]
      ELSE LET p == [rest[Len(rest)] EXCEPT !.rets = Append(@, out)] IN
           IF out.kind = "return"
           THEN [stack |-> ReplaceTop(rest, Resume(p, out)), result |-> Pending,
                 completed |-> comp2]
           ELSE Unwind(ReplaceTop(rest, p), Raise(Reraise(p.op, out.err)), comp2)

\* The state after the top frame's step has decided d.
Apply(d) ==
  LET nx == CASE d.do = "continue" ->
                   [stack |-> ReplaceTop(stack, d.frame), result |-> Pending,
                    completed |-> completed]
              [] d.do = "call" ->
                   [stack |-> Append(ReplaceTop(stack,
                                 [d.frame EXCEPT !.calls = Append(@, d.child)]), d.child),
                    result |-> Pending, completed |-> completed]
              [] d.do = "finish" -> Unwind(ReplaceTop(stack, d.frame), d.outcome, completed)
  IN  /\ stack' = nx.stack
      /\ result' = nx.result
      /\ completed' = nx.completed

\* The answers the remote may give to req now.
Answers(req) ==
  {Genuine(remote, req)}
  \cup (IF faults < MaxFaults
        THEN FaultResponses(remote, req, stack[1].op \in Primitives)
        ELSE {})

\* The request goes out and resp comes back: the remote carries out what it
\* accepted, and the exchange is on record.
Exchange(req, resp) ==
  /\ remote' = IF resp.applied THEN Effect(remote, req) ELSE remote
  /\ faults' = IF resp = Genuine(remote, req) THEN faults ELSE faults + 1
  /\ log' = Append(log, [req |-> req, resp |-> resp, depth |-> Len(stack)])
  /\ UNCHANGED initial

Sent(f, req, resp) == [f EXCEPT !.reqs = Append(@, [req |-> req, resp |-> resp])]

Running(op, pc) == stack # <<>> /\ Top.op = op /\ Top.pc = pc
Idle == stack = <<>> /\ result = Pending

\* ----------------------------------------------------------------- copy
CopyFrame(src, dst, overwrite) ==
  [Frame("copy", src) EXCEPT !.pc = "probe_src", !.dest = dst, !.overwrite = overwrite]

\* contents.get("objects", [])
Objects(body) == IF body.tag = "list" THEN body.objects ELSE <<>>
\* source_info.get("object_type")
ObjectType(info) == IF info.tag = "object" THEN info.object_type ELSE "NONE"
\* source_info.get("language", "PYTHON")
SourceLanguage(info) ==
  IF info.tag = "object" /\ info.language # "NONE" THEN info.language ELSE "PYTHON"

\* Mutant: the wrapped error always carries 404, whatever the probe's status.
AfterSourceProbe_Always404(f, out) ==
  IF out.kind = "return"
  THEN Go([f EXCEPT !.pc = IF f.overwrite THEN "status" ELSE "probe_dst"])
  ELSE IF IsAPIError(out.err)
       THEN End(f, Raise(APIError(NOT_FOUND, "source_missing", f.path)))
       ELSE End(f, out)

\* try: self.get_status(source_path)
\* except DatabricksAPIError as e: raise DatabricksAPIError(e.status_code, "Source path ...")
AfterSourceProbe(f, out) ==
  IF out.kind = "return"
  THEN Go([f EXCEPT !.pc = IF f.overwrite THEN "status" ELSE "probe_dst"])
  ELSE IF IsAPIError(out.err)
       THEN End(f, Raise(APIError(out.err.status_code, "source_missing", f.path)))
       ELSE End(f, out)

\* Mutant: the 409 is raised with the raise of line 220 left out.
AfterDestProbe_NoConflict(f, out) ==
  IF out.kind = "return"
  THEN Go([f EXCEPT !.pc = "status"])
  ELSE IF IsAPIError(out.err)
       THEN IF out.err.status_code # NOT_FOUND THEN End(f, out)
            ELSE Go([f EXCEPT !.pc = "status"])
       ELSE End(f, out)

\* Mutant: the except clause passes over every API error, not only 404.
AfterDestProbe_SwallowsAll(f, out) ==
  IF out.kind = "return"
  THEN End(f, Raise(APIError(CONFLICT, "destination_exists", f.dest)))
  ELSE IF IsAPIError(out.err)
       THEN Go([f EXCEPT !.pc = "status"])
       ELSE End(f, out)

\* if not overwrite: try: self.get_status(destination_path); raise ...(409, ...)
\* except DatabricksAPIError as e: if e.status_code != 404: raise
AfterDestProbe(f, out) ==
  IF out.kind = "return"
  THEN End(f, Raise(APIError(CONFLICT, "destination_exists", f.dest)))
  ELSE IF IsAPIError(out.err)
       THEN IF out.err.status_code # NOT_FOUND THEN End(f, out)
            ELSE Go([f EXCEPT !.pc = "status"])
       ELSE End(f, out)

\* Inside the try block: an exception leaves through the except clause.
Fails(f, e) == End(f, Raise(Reraise("copy", e)))

\* source_info = self.get_status(source_path), and the dispatch on its type.
AfterSourceInfo(f, out) ==
  IF out.kind = "raise" THEN Fails(f, out.err)
  ELSE LET info == out.value.body IN
       IF ObjectType(info) = "NOTEBOOK"
       THEN Go([f EXCEPT !.source_info = info, !.pc = "export"])
       ELSE IF ObjectType(info) = "DIRECTORY"
            THEN Go([f EXCEPT !.source_info = info, !.pc = "mkdirs"])
            ELSE End([f EXCEPT !.source_info = info],
                     Raise(APIError(UNSUPPORTED, "unsupported_type", <<ObjectType(info)>>)))

\* content = self.export_notebook(source_path); import_notebook then starts
\* with content.encode(), which fails on None before anything is sent.
AfterExport(f, out) ==
  IF out.kind = "raise" THEN Fails(f, out.err)
  ELSE IF out.value.tag = "none"
       THEN Fails([f EXCEPT !.content = out.value], OtherError("AttributeError"))
       ELSE Go([f EXCEPT !.content = out.value, !.pc = "import"])

\* Mutant: overwrite=overwrite is left out, so import_notebook's default applies.
NotebookImport_DropsOverwrite(f) ==
  ImportRequest(f.dest, SourceLanguage(f.source_info), f.content.text, FALSE)

\* self.import_notebook(destination_path, language, content, overwrite=overwrite)
NotebookImport(f) ==
  ImportRequest(f.dest, SourceLanguage(f.source_info), f.content.text, f.overwrite)

\* return self.import_notebook(...)
AfterImport(f, out) ==
  IF out.kind = "raise" THEN Fails(f, out.err) ELSE End(f, out)

\* self.create_directory(destination_path): the boolean is dropped.
AfterMkdirs(f, out) ==
  IF out.kind = "raise" THEN Fails(f, out.err) ELSE Go([f EXCEPT !.pc = "list"])

\* contents = self.list_contents(source_path); success = True
AfterList(f, out) ==
  IF out.kind = "raise" THEN Fails(f, out.err)
  ELSE Go([f EXCEPT !.contents = Objects(out.value.body), !.success = TRUE,
                    !.i = 1, !.pc = "loop"])

\* Mutant: the child's destination is built on the source directory.
NewDest_UnderSource(dst, item_path) == JoinPath(Parent(item_path), LastSegment(item_path))

\* new_dest = f"{destination_path}/{item_name}", item_name the last segment
NewDest(dst, item_path) == JoinPath(dst, LastSegment(item_path))

\* for item in contents.get("objects", []): self.copy(item_path, new_dest, overwrite)
\* ... return success
CopyNextItem(f) ==
  IF f.i > Len(f.contents) THEN End(f, Return(BoolValue(f.success)))
  ELSE LET item_path == f.contents[f.i].path
       IN  Call(f, CopyFrame(item_path, NewDest(f.dest, item_path), f.overwrite))

CopyProbeSrc ==
  /\ Running("copy", "probe_src")
  /\ LET req == StatusRequest(Top.path) IN
     \E resp \in Answers(req) :
       /\ Exchange(req, resp)
       /\ Apply(AfterSourceProbe(Sent(Top, req, resp), PrimitiveOutcome("get_status", resp)))

CopyProbeDst ==
  /\ Running("copy", "probe_dst")
  /\ LET req == StatusRequest(Top.dest) IN
     \E resp \in Answers(req) :
       /\ Exchange(req, resp)
       /\ Apply(AfterDestProbe(Sent(Top, req, resp), PrimitiveOutcome("get_status", resp)))

CopyStatus ==
  /\ Running("copy", "status")
  /\ LET req == StatusRequest(Top.path) IN
     \E resp \in Answers(req) :
       /\ Exchange(req, resp)
       /\ Apply(AfterSourceInfo(Sent(Top, req, resp), PrimitiveOutcome("get_status", resp)))

CopyExport ==
  /\ Running("copy", "export")
  /\ LET req == ExportRequest(Top.path) IN
     \E resp \in Answers(req) :
       /\ Exchange(req, resp)
       /\ Apply(AfterExport(Sent(Top, req, resp), PrimitiveOutcome("export_notebook", resp)))

CopyImport ==
  /\ Running("copy", "import")
  /\ LET req == NotebookImport(Top) IN
     \E resp \in Answers(req) :
       /\ Exchange(req, resp)
       /\ Apply(AfterImport(Sent(Top, req, resp), PrimitiveOutcome("import_notebook", resp)))

CopyMkdirs ==
  /\ Running("copy", "mkdirs")
  /\ LET req == MkdirsRequest(Top.dest) IN
     \E resp \in Answers(req) :
       /\ Exchange(req, resp)
       /\ Apply(AfterMkdirs(Sent(Top, req, resp), PrimitiveOutcome("create_directory", resp)))

CopyList ==
  /\ Running("copy", "list")
  /\ LET req == ListRequest(Top.path) IN
     \E resp \in Answers(req) :
       /\ Exchange(req, resp)
       /\ Apply(AfterList(Sent(Top, req, resp), PrimitiveOutcome("list_contents", resp)))

CopyLoop ==
  /\ Running("copy", "loop")
  /\ Apply(CopyNextItem(Top))
  /\ UNCHANGED <<remote, faults, log, initial>>

\* --------------------------------------------------------------- search
\* results = []; file_types = file_types or [...]
SearchFrame(path, recursive, arg) ==
  [Frame("search", path) EXCEPT !.pc = "list", !.recursive = recursive, !.arg = arg,
                                !.file_types = EffectiveFileTypes(arg), !.results = <<>>]

\* contents = self.list_contents(path)
AfterSearchList(f, out) ==
  IF out.kind = "raise" THEN End(f, Raise(Reraise("search", out.err)))
  ELSE Go([f EXCEPT !.contents = Objects(out.value.body), !.i = 1, !.pc = "loop"])

\* if item_type in file_types: results.append(item)
Collect(results, item, file_types) ==
  IF item.object_type \in file_types THEN Append(results, item) ELSE results

\* Mutant: a directory is entered only when DIRECTORY is among the types asked for.
Descends_OnlyIfRequested(f, item) ==
  f.recursive /\ item.object_type = "DIRECTORY" /\ "DIRECTORY" \in f.file_types

\* if recursive and item_type == "DIRECTORY"
Descends(f, item) == f.recursive /\ item.object_type = "DIRECTORY"

\* One turn of the for loop up to the recursive call, or return results.
SearchNextItem(f) ==
  IF f.i > Len(f.contents) THEN End(f, Return(ListValue(f.results)))
  ELSE LET item == f.contents[f.i]
           g == [f EXCEPT !.results = Collect(@, item, f.file_types)]
       IN  IF Descends(f, item)
           THEN Call(g, SearchFrame(item.path, f.recursive, FileTypes(f.file_types)))
           ELSE Go([g EXCEPT !.i = @ + 1])

SearchList ==
  /\ Running("search", "list")
  /\ LET req == ListRequest(Top.path) IN
     \E resp \in Answers(req) :
       /\ Exchange(req, resp)
       /\ Apply(AfterSearchList(Sent(Top, req, resp), PrimitiveOutcome("list_contents", resp)))

SearchLoop ==
  /\ Running("search", "loop")
  /\ Apply(SearchNextItem(Top))
  /\ UNCHANGED <<remote, faults, log, initial>>

\* --------------------------------------------------------------- exists
\* Mutant: every API error reads as "does not exist".
ExistsResult_FalseOnAnyError(f, out) ==
  IF out.kind = "return" THEN End(f, Return(BoolValue(TRUE)))
  ELSE IF IsAPIError(out.err)
       THEN End(f, Return(BoolValue(FALSE)))
       ELSE End(f, out)

\* try: self.get_status(path); return True
\* except DatabricksAPIError as e: if e.status_code == 404: return False; raise
ExistsResult(f, out) ==
  IF out.kind = "return" THEN End(f, Return(BoolValue(TRUE)))
  ELSE IF IsAPIError(out.err) /\ out.err.status_code = NOT_FOUND
       THEN End(f, Return(BoolValue(FALSE)))
       ELSE End(f, out)

ExistsProbe ==
  /\ Running("exists", "send")
  /\ LET req == StatusRequest(Top.path) IN
     \E resp \in Answers(req) :
       /\ Exchange(req, resp)
       /\ Apply(ExistsResult(Sent(Top, req, resp), PrimitiveOutcome("get_status", resp)))

\* ------------------------------------------------- a primitive on its own
PrimitiveRequest(f) ==
  CASE f.op = "list_contents" -> ListRequest(f.path)
    [] f.op = "get_status" -> StatusRequest(f.path)
    [] f.op = "delete" -> DeleteRequest(f.path, f.recursive)
    [] f.op = "create_directory" -> MkdirsRequest(f.path)
    [] f.op = "import_notebook" ->
         ImportRequest(f.path, "PYTHON", f.content.text, f.overwrite)
    [] f.op = "export_notebook" -> ExportRequest(f.path)
    [] f.op = "get_permissions" -> PermissionsRequest(f.path)
    [] f.op = "update_permissions" -> UpdatePermissionsRequest(f.path)
    [] f.op = "move" -> MoveRequest(f.path, f.dest, f.overwrite)

PrimitiveCall ==
  /\ stack # <<>> /\ Top.op \in Primitives /\ Top.pc = "send"
  /\ LET req == PrimitiveRequest(Top) IN
     \E resp \in Answers(req) :
       /\ Exchange(req, resp)
       /\ Apply(End(Sent(Top, req, resp), PrimitiveOutcome(Top.op, resp)))

\* ------------------------------------------------------ the initial tree
\* What stands at a top-level name, and under a top-level directory.
TopKinds == {"ABSENT", "NOTEBOOK", "LIBRARY", "DIRECTORY"}
SubKinds == {"ABSENT", "NOTEBOOK", "DIRECTORY"}

\* A notebook's language as the remote reports it ("NONE": not reported).
InitLanguage(p) == IF LastSegment(p) = Names[1] THEN "SQL" ELSE "NONE"

InitObject(p, kind) ==
  CASE kind = "NOTEBOOK" -> Notebook(InitLanguage(p), p)
    [] kind = "DIRECTORY" -> Directory
    [] kind = "LIBRARY" -> Library
    [] OTHER -> Absent

Tree(top, sub) ==
  [p \in PathSpace |->
     IF p = Root THEN Directory
     ELSE IF Len(p) = 1 THEN InitObject(p, top[p[1]])
     ELSE IF Len(p) = 2 /\ top[p[1]] = "DIRECTORY" THEN InitObject(p, sub[p])
     ELSE Absent]

InitTrees ==
  {Tree(top, sub) : top \in [NameSet -> TopKinds],
                    sub \in [{p \in PathSpace : Len(p) = 2} -> SubKinds]}

\* The paths a caller names.
CallPaths == {p \in PathSpace : Len(p) >= 1 /\ Len(p) <= 2}
FileTypeArgs ==
  {NoFileTypes, FileTypes({}), FileTypes({"NOTEBOOK"}), FileTypes({"DIRECTORY"}),
   FileTypes({"NOTEBOOK", "DIRECTORY"}), FileTypes({"LIBRARY", "FILE"})}

Init ==
  /\ remote \in InitTrees
  /\ stack = <<>>
  /\ result = Pending
  /\ log = <<>>
  /\ faults = 0
  /\ completed = <<>>
  /\ initial = remote

\* ------------------------------------------------------------ the calls
CallCopy ==
  /\ Idle
  /\ \E src \in CallPaths, dst \in CallPaths, overwrite \in BOOLEAN :
       stack' = <<CopyFrame(src, dst, overwrite)>>
  /\ UNCHANGED <<remote, result, log, faults, completed, initial>>

CallSearch ==
  /\ Idle
  /\ \E p \in CallPaths \cup {Root}, recursive \in BOOLEAN, arg \in FileTypeArgs :
       stack' = <<SearchFrame(p, recursive, arg)>>
  /\ UNCHANGED <<remote, result, log, faults, completed, initial>>

CallExists ==
  /\ Idle
  /\ \E p \in CallPaths \cup {Root} : stack' = <<Frame("exists", p)>>
  /\ UNCHANGED <<remote, result, log, faults, completed, initial>>

CallPrimitive ==
  /\ Idle
  /\ \E name \in Primitives, p \in CallPaths, flag \in BOOLEAN :
       stack' = <<[Frame(name, p) EXCEPT !.recursive = flag, !.overwrite = flag,
                                          !.dest = <<Names[2]>>,
                                          !.content = TextValue(<<"new">>)]>>
  /\ UNCHANGED <<remote, result, log, faults, completed, initial>>

Next ==
  \/ CallCopy
  \/ CallSearch
  \/ CallExists
  \/ CallPrimitive
  \/ CopyProbeSrc
  \/ CopyProbeDst
  \/ CopyStatus
  \/ CopyExport
  \/ CopyImport
  \/ CopyMkdirs
  \/ CopyList
  \/ CopyLoop
  \/ SearchList
  \/ SearchLoop
  \/ ExistsProbe
  \/ PrimitiveCall

Spec == Init /\ [][Next]_vars

\* ================================================================ claims
\* Every call that has ended, and every call still running.
Ended == {completed[k] : k \in 1..Len(completed)}
EndedOf(op) == {c \in Ended : c.frame.op = op}
RunningOf(op) == {f \in {stack[k] : k \in 1..Len(stack)} : f.op = op}

\* The answer x.resp to a get-status request made the call succeed / fail
\* with an API error.
StatusSucceeded(x) == x.resp.transport = "ok" /\ x.resp.status >= 200 /\ x.resp.status < 300
                      /\ x.resp.body.tag = "object"
FailedWithStatus(x) == x.resp.transport = "ok" /\ x.resp.status >= 400 /\ x.resp.status < 600
LastLogged == log[Len(log)]

\* The destination probe of a copy without overwrite found the destination.
DestinationFound(f) ==
  /\ f.op = "copy" /\ ~f.overwrite /\ Len(f.reqs) >= 2
  /\ StatusSucceeded(f.reqs[1]) /\ StatusSucceeded(f.reqs[2])

\* C1: a copy without overwrite whose source probe and destination probe both
\* succeed ends with an API error of status 409, and the destination probe is
\* the last request it sends: the call is never seen going on after it, and
\* nothing is requested after it.
C1_ConflictWithoutFurtherRequests ==
  /\ \A f \in RunningOf("copy") : ~DestinationFound(f)
  /\ \A c \in EndedOf("copy") :
       DestinationFound(c.frame) =>
         /\ c.outcome.kind = "raise"
         /\ IsAPIError(c.outcome.err)
         /\ c.outcome.err.status_code = 409
         /\ Len(c.frame.reqs) = 2
         /\ c.frame.reqs[2].req = Req("get-status", c.frame.dest)
         /\ c.frame.calls = <<>>
         /\ stack = <<>>
         /\ LastLogged.req = c.frame.reqs[2].req
         /\ LastLogged.resp = c.frame.reqs[2].resp

\* C1's case: a copy without overwrite found its destination.
C1_Witness ==
  \E c \in EndedOf("copy") : DestinationFound(c.frame)

\* C4: exists(P) returns true when get_status(P) succeeds, false when it fails
\* with status 404, and for a failure with any other status it raises that
\* error, status and message unchanged.
C4_ExistsByStatus ==
  \A c \in EndedOf("exists") :
    LET x == c.frame.reqs[1] IN
    /\ Len(c.frame.reqs) = 1
    /\ x.req = Req("get-status", c.frame.path)
    /\ StatusSucceeded(x) => c.outcome = Return(BoolValue(TRUE))
    /\ (FailedWithStatus(x) /\ x.resp.status = 404) => c.outcome = Return(BoolValue(FALSE))
    /\ (FailedWithStatus(x) /\ x.resp.status # 404) =>
         /\ c.outcome.kind = "raise"
         /\ IsAPIError(c.outcome.err)
         /\ c.outcome.err.status_code = x.resp.status
         /\ c.outcome = PrimitiveOutcome("get_status", x.resp)

\* C4's case: exists has raised the 403 of its probe.
C4_Witness ==
  \E c \in EndedOf("exists") :
    /\ FailedWithStatus(c.frame.reqs[1]) /\ c.frame.reqs[1].resp.status = 403
    /\ c.outcome.kind = "raise"

\* The source probe of a copy failed with an API error.
SourceProbeFailed(f) == f.op = "copy" /\ Len(f.reqs) >= 1 /\ FailedWithStatus(f.reqs[1])

\* C7: a copy whose source probe fails with an API error of status s (404 when
\* the source is absent) ends with an API error of status s whose message names
\* the source path, and the probe is the only request it sends.
C7_SourceMissing ==
  /\ \A f \in RunningOf("copy") : ~SourceProbeFailed(f)
  /\ \A c \in EndedOf("copy") :
       SourceProbeFailed(c.frame) =>
         /\ c.frame.reqs = <<[req |-> Req("get-status", c.frame.path),
                              resp |-> c.frame.reqs[1].resp]>>
         /\ c.frame.calls = <<>>
         /\ c.outcome.kind = "raise"
         /\ IsAPIError(c.outcome.err)
         /\ c.outcome.err.status_code = c.frame.reqs[1].resp.status
         /\ c.outcome.err.message = [tag |-> "source_missing", args |-> c.frame.path]
         /\ (~Exists(remote, c.frame.path) /\ faults = 0) => c.outcome.err.status_code = 404
         /\ stack = <<>>
         /\ LastLogged.req = Req("get-status", c.frame.path)

\* C7's case: the source of the outermost copy is absent and the copy has
\* failed with 404.
C7_Witness ==
  \E c \in EndedOf("copy") :
    /\ SourceProbeFailed(c.frame) /\ ~Exists(remote, c.frame.path)
    /\ c.outcome.err.status_code = 404 /\ Len(log) = 1

\* The source probe of a copy without overwrite succeeded and its destination
\* probe failed with an API error.
DestProbeFailed(f) ==
  /\ f.op = "copy" /\ ~f.overwrite /\ Len(f.reqs) >= 2
  /\ StatusSucceeded(f.reqs[1]) /\ FailedWithStatus(f.reqs[2])

\* C8: in a copy without overwrite whose source probe succeeded, a destination
\* probe that fails with 404 is followed by the type dispatch (the get-status
\* of the source), and one that fails with another status s ends the copy with
\* an API error of status s, the probe being its last request (no mkdirs,
\* export, import or list).
C8_DestinationProbe ==
  /\ \A f \in RunningOf("copy") :
       DestProbeFailed(f) =>
         /\ f.reqs[2].resp.status = 404
         /\ IF Len(f.reqs) = 2 THEN f.pc = "status"
            ELSE f.reqs[3].req = Req("get-status", f.path)
  /\ \A c \in EndedOf("copy") :
       DestProbeFailed(c.frame) =>
         IF c.frame.reqs[2].resp.status = 404
         THEN Len(c.frame.reqs) >= 3 /\ c.frame.reqs[3].req = Req("get-status", c.frame.path)
         ELSE /\ Len(c.frame.reqs) = 2
              /\ c.frame.calls = <<>>
              /\ c.outcome.kind = "raise"
              /\ IsAPIError(c.outcome.err)
              /\ c.outcome.err.status_code = c.frame.reqs[2].resp.status
              /\ \A k \in 1..Len(c.frame.reqs) :
                   c.frame.reqs[k].req.ep \notin {"mkdirs", "export", "import", "list"}
              /\ stack = <<>>
              /\ LastLogged.req = Req("get-status", c.frame.dest)

\* C8's cases, both in one run: one child copy went on after a 404 on its
\* destination and returned, and a later one ended on a 403 from its
\* destination probe.
C8_Witness ==
  \E c1, c2 \in EndedOf("copy") :
    /\ DestProbeFailed(c1.frame) /\ c1.frame.reqs[2].resp.status = 404
    /\ c1.outcome.kind = "return"
    /\ DestProbeFailed(c2.frame) /\ c2.frame.reqs[2].resp.status = 403
    /\ c2.outcome.kind = "raise"

\* A copy that found a DIRECTORY source and listed it.
ListedDirectory(f) == f.op = "copy" /\ f.pc = "loop"

\* C2: in a copy of a directory, a child copy that fails (returns false or
\* raises) does not abort its siblings: every listed child is attempted, and
\* the result is the AND of the children's results.
C2_FailedChildDoesNotAbortSiblings ==
  \A c \in EndedOf("copy") :
    (/\ ListedDirectory(c.frame)
     /\ \A k \in 1..Len(c.frame.rets) :
          c.frame.rets[k].kind = "raise" => IsAPIError(c.frame.rets[k].err)) =>
      /\ Len(c.frame.calls) = Len(c.frame.contents)
      /\ c.outcome.kind = "return"
      /\ c.outcome.value.b = (\A k \in 1..Len(c.frame.rets) :
                                c.frame.rets[k].kind = "return" /\ c.frame.rets[k].value.b)

\* The requests f sent to endpoint ep.
RequestsTo(f, ep) == {k \in 1..Len(f.reqs) : f.reqs[k].req.ep = ep}

\* The first n child calls of f are the first n listed children, each copied
\* to f's destination plus the child's last path segment.
ChildCallsFollowListing(f, n) ==
  \A k \in 1..n :
    LET child == f.contents[k].path IN
    /\ f.calls[k].op = "copy"
    /\ f.calls[k].path = child
    /\ f.calls[k].dest = f.dest \o <<child[Len(child)]>>
    /\ f.calls[k].overwrite = f.overwrite

\* C3: a copy of a directory sends one mkdirs for its destination and one
\* list for its source, and calls copy once per listed child, in order, to
\* destination/<last segment of the child>; when every child returns, it
\* returns the AND of the children's results (true for an empty listing).
C3_DirectoryCopyIsAndOfChildren ==
  /\ \A f \in RunningOf("copy") :
       ListedDirectory(f) =>
         /\ Len(f.calls) \in {f.i - 1, f.i}
         /\ Len(f.calls) <= Len(f.contents)
         /\ Len(f.rets) = f.i - 1
         /\ ChildCallsFollowListing(f, Len(f.calls))
         /\ f.success = (\A k \in 1..Len(f.rets) : f.rets[k].value.b)
  /\ \A c \in EndedOf("copy") :
       (ListedDirectory(c.frame) /\ c.outcome.kind = "return") =>
         LET f == c.frame IN
         /\ Cardinality(RequestsTo(f, "mkdirs")) = 1
         /\ Cardinality(RequestsTo(f, "list")) = 1
         /\ \A k \in RequestsTo(f, "mkdirs") : f.reqs[k].req = Req("mkdirs", f.dest)
         /\ \A k \in RequestsTo(f, "list") :
              /\ f.reqs[k].req = Req("list", f.path)
              /\ k = Len(f.reqs)
              /\ f.contents = (IF f.reqs[k].resp.body.tag = "list"
                               THEN f.reqs[k].resp.body.objects ELSE <<>>)
         /\ Len(f.calls) = Len(f.contents)
         /\ Len(f.rets) = Len(f.contents)
         /\ ChildCallsFollowListing(f, Len(f.contents))
         /\ \A k \in 1..Len(f.rets) : f.rets[k].kind = "return"
         /\ c.outcome.value.b = (\A k \in 1..Len(f.rets) : f.rets[k].value.b)

\* C3's case: a directory with two children was copied, the first child's
\* copy returned false and the second's true, and the copy returned.
C3_Witness ==
  \E c \in EndedOf("copy") :
    /\ ListedDirectory(c.frame) /\ c.outcome.kind = "return"
    /\ Len(c.frame.contents) = 2
    /\ ~c.frame.rets[1].value.b /\ c.frame.rets[2].value.b

\* C3's vacuous case is reached too: the copy of an empty directory returned.
C3_EmptyDirectory ==
  \E c \in EndedOf("copy") :
    ListedDirectory(c.frame) /\ c.outcome.kind = "return" /\ c.frame.contents = <<>>

\* The objects strictly below p in tree r, in pre-order: the children in
\* listing order, each directory followed by what is below it.
RECURSIVE PreOrder(_, _)
PreOrder(r, p) ==
  LET kids == ChildrenOf(r, p)
      F[k \in 0..Len(kids)] ==
        IF k = 0 THEN <<>>
        ELSE F[k - 1] \o <<kids[k]>>
             \o (IF kids[k].object_type = "DIRECTORY" THEN PreOrder(r, kids[k].path) ELSE <<>>)
  IN  IF IsDir(r, p) THEN F[Len(kids)] ELSE <<>>

\* The items of seq whose type is in T, in their order.
RECURSIVE OfTypes(_, _)
OfTypes(seq, T) ==
  IF seq = <<>> THEN <<>>
  ELSE (IF Head(seq).object_type \in T THEN <<Head(seq)>> ELSE <<>>) \o OfTypes(Tail(seq), T)

\* The outermost call, once it has ended.
Outermost == completed[Len(completed)]
SearchReturned ==
  /\ stack = <<>> /\ completed # <<>>
  /\ Outermost.frame.op = "search" /\ Outermost.frame.recursive
  /\ Outermost.outcome.kind = "return"

\* C5 as claimed: for every set T of requested types (the default four when
\* none is given), a recursive search returns the pre-order of the objects
\* below P restricted to the types in T.
C5_PreOrderForEverySet ==
  SearchReturned =>
    LET f == Outermost.frame
        T == IF f.arg.given THEN f.arg.types ELSE {"NOTEBOOK", "DIRECTORY", "LIBRARY", "REPO"}
    IN  Outermost.outcome.value.items = OfTypes(PreOrder(remote, f.path), T)

\* C5, amended: the same for every non-empty T; an empty T is read as no T at
\* all and selects the default four types.  Directories are entered whether or
\* not DIRECTORY is in T.
C5_PreOrderForNonEmptySet ==
  /\ SearchReturned =>
       LET f == Outermost.frame
           T == IF f.arg.given /\ f.arg.types # {} THEN f.arg.types
                ELSE {"NOTEBOOK", "DIRECTORY", "LIBRARY", "REPO"}
       IN  Outermost.outcome.value.items = OfTypes(PreOrder(remote, f.path), T)
  /\ \A c \in EndedOf("search") :
       (c.frame.recursive /\ c.outcome.kind = "return") =>
         c.outcome.value.items = OfTypes(PreOrder(remote, c.frame.path), c.frame.file_types)

\* C5's case: a recursive search for notebooks only returned a notebook that
\* lies below a directory, after a notebook listed before that directory.
C5_Witness ==
  /\ SearchReturned
  /\ Outermost.frame.arg = FileTypes({"NOTEBOOK"})
  /\ \E i, j \in 1..Len(Outermost.outcome.value.items) :
       /\ i < j
       /\ Len(Outermost.outcome.value.items[i].path) = Len(Outermost.frame.path) + 1
       /\ Len(Outermost.outcome.value.items[j].path) = Len(Outermost.frame.path) + 2

\* A search's own list request failed.
ListFailed(f) ==
  /\ f.op = "search" /\ Len(f.reqs) = 1
  /\ \/ f.reqs[1].resp.transport = "error"
     \/ FailedWithStatus(f.reqs[1])
     \/ f.reqs[1].resp.body.tag = "text"

\* C9: when a list request of a search fails with an API error of status s,
\* the search that sent it and every search around it end with that same
\* error (no result list), and nothing is listed afterwards; a failure that
\* is no API error ends them with an API error of status 500.
C9_SearchPropagatesFirstError ==
  /\ \A f \in RunningOf("search") : ~ListFailed(f)
  /\ \A c \in EndedOf("search") :
       ListFailed(c.frame) =>
         LET x == c.frame.reqs[1] IN
         /\ c.outcome.kind = "raise"
         /\ IsAPIError(c.outcome.err)
         /\ c.outcome.err.status_code = (IF FailedWithStatus(x) THEN x.resp.status ELSE 500)
         /\ FailedWithStatus(x) => c.outcome = PrimitiveOutcome("list_contents", x.resp)
         /\ stack = <<>>
         /\ result = c.outcome
         /\ \A d \in EndedOf("search") :
              d.outcome.kind = "raise" => d.outcome = c.outcome
         /\ LastLogged.req = x.req /\ LastLogged.resp = x.resp

\* C9's case: a list request two levels below the searched path failed with
\* 403, after a sibling subtree had been searched.
C9_Witness ==
  \E c \in EndedOf("search") :
    /\ ListFailed(c.frame) /\ FailedWithStatus(c.frame.reqs[1])
    /\ c.frame.reqs[1].resp.status = 403
    /\ Len(c.frame.path) = Len(Outermost.frame.path) + 1
    /\ Len(completed) >= 3
    /\ result.err.status_code = 403

\* C9's other case is reached too: a nested list request that got no answer
\* ended the search with status 500.
C9_Wrapped ==
  \E c \in EndedOf("search") :
    ListFailed(c.frame) /\ c.frame.reqs[1].resp.transport = "error" /\ Len(completed) >= 2

\* A primitive called on its own has had its answer.
EndedPrimitives == {c \in Ended : c.frame.op \in Primitives}
Answer(c) == c.frame.reqs[1].resp
RaisedStatus(c) ==
  /\ c.outcome.kind = "raise"
  /\ IsAPIError(c.outcome.err)
  /\ c.outcome.err.status_code = Answer(c).status

\* C6 as claimed: every answer with a status outside 200..299 makes the
\* primitive raise an API error with that status; it never returns a value.
C6_EveryNon2xxRaises ==
  \A c \in EndedPrimitives :
    (Answer(c).transport = "ok" /\ ~(Answer(c).status >= 200 /\ Answer(c).status < 300)) =>
      RaisedStatus(c)

\* C6, amended: every answer with a 4xx or 5xx status makes the primitive
\* raise an API error with that status, and delete(path, recursive=false) on a
\* non-empty directory raises; an answer with a 3xx status is not raised:
\* delete, create_directory, import_notebook and move return false and
\* export_notebook returns None.
C6_ClientAndServerErrorsRaise ==
  \A c \in EndedPrimitives :
    /\ Len(c.frame.reqs) = 1
    /\ (Answer(c).transport = "ok" /\ Answer(c).status >= 400 /\ Answer(c).status < 600) =>
         RaisedStatus(c)
    /\ (/\ c.frame.op = "delete" /\ ~c.frame.recursive /\ faults = 0
        /\ IsDir(remote, c.frame.path) /\ ChildrenOf(remote, c.frame.path) # <<>>) =>
         RaisedStatus(c) /\ Answer(c).status >= 400
    /\ (Answer(c).transport = "ok" /\ Answer(c).status >= 300 /\ Answer(c).status < 400) =>
         /\ c.frame.op \in {"delete", "create_directory", "import_notebook", "move"} =>
              c.outcome = Return(BoolValue(FALSE))
         /\ c.frame.op = "export_notebook" => c.outcome = Return(NoneValue)
         /\ ~RaisedStatus(c)

\* C6's case: delete without recursive was refused on a non-empty directory
\* and raised the remote's status.
C6_Witness ==
  \E c \in EndedPrimitives :
    /\ c.frame.op = "delete" /\ ~c.frame.recursive /\ faults = 0
    /\ IsDir(remote, c.frame.path) /\ ChildrenOf(remote, c.frame.path) # <<>>
    /\ RaisedStatus(c) /\ c.outcome.err.status_code = 400

\* A copy that found a NOTEBOOK source.
NotebookCopy(f) == f.op = "copy" /\ f.pc \in {"export", "import"}

\* The import request of frame f, sent as its k-th request, follows the
\* export of the source and carries what C10 says.
ImportFollowsExport(f, k) ==
  /\ k = Len(f.reqs)
  /\ k >= 3
  /\ f.reqs[k - 2].req = Req("get-status", f.path)
  /\ f.reqs[k - 1].req = Req("export", f.path)
  /\ f.reqs[k - 1].resp.status = 200
  /\ f.reqs[k].req =
       [Req("import", f.dest) EXCEPT
          !.language = IF f.reqs[k - 2].resp.body.language = "NONE" THEN "PYTHON"
                       ELSE f.reqs[k - 2].resp.body.language,
          !.content = f.reqs[k - 1].resp.body.content,
          !.format = "SOURCE",
          !.overwrite = f.overwrite]

\* C10: a copy of a notebook sends its import only after the export of the
\* source, sends at most one, and sends it to destination_path with the
\* exported content, the language of the source's status (PYTHON when the
\* status reports none) and the caller's overwrite; when the copy returns, it
\* has sent exactly one import and returns that import's result.
C10_NotebookExportThenImport ==
  /\ \A f \in RunningOf("copy") :
       NotebookCopy(f) =>
         /\ RequestsTo(f, "import") = {}
         /\ Cardinality(RequestsTo(f, "export")) = (IF f.pc = "import" THEN 1 ELSE 0)
  /\ \A c \in EndedOf("copy") :
       NotebookCopy(c.frame) =>
         LET f == c.frame IN
         /\ Cardinality(RequestsTo(f, "export")) = 1
         /\ Cardinality(RequestsTo(f, "import")) <= 1
         /\ \A k \in RequestsTo(f, "import") : ImportFollowsExport(f, k)
         /\ c.outcome.kind = "return" =>
              /\ Cardinality(RequestsTo(f, "import")) = 1
              /\ c.outcome.value = [tag |-> "bool", b |-> f.reqs[Len(f.reqs)].resp.status = 200]
  /\ \A c \in EndedOf("copy") :
       ~NotebookCopy(c.frame) =>
         RequestsTo(c.frame, "import") = {} /\ RequestsTo(c.frame, "export") = {}

\* C10's case: a SQL notebook was copied with overwrite over an existing
\* notebook, and the copy returned true.
C10_Witness ==
  \E c \in EndedOf("copy") :
    /\ NotebookCopy(c.frame) /\ c.frame.overwrite
    /\ c.outcome = Return(BoolValue(TRUE))
    /\ c.frame.reqs[Len(c.frame.reqs)].req.language = "SQL"
    /\ c.frame.path # c.frame.dest
    /\ Lookup(remote, c.frame.dest) = Lookup(remote, c.frame.path)
    /\ c.frame.reqs[Len(c.frame.reqs)].req.content # B64Encode(c.frame.dest)

\* The error fields a body has, in the order the message shows them.
PresentFields(body) ==
  IF body.tag # "error" THEN <<>>
  ELSE (IF body.error_code # "NONE" THEN <<body.error_code>> ELSE <<>>)
       \o (IF body.message # "NONE" THEN <<body.message>> ELSE <<>>)

\* C11 as claimed: the message of the API error a primitive raises is built
\* from error_code and/or message when the body is a JSON object that has
\* them, and is the raw response text when they are absent.
C11_FieldsElseRawText ==
  \A c \in EndedPrimitives :
    RaisedStatus(c) =>
      LET body == Answer(c).body
          msg == c.outcome.err.message
      IN  IF PresentFields(body) # <<>>
          THEN msg.tag \in {"code_and_message", "message"} /\ msg.args = PresentFields(body)
          ELSE msg.tag = "response_text" /\ msg.args = ResponseText(body)

\* C11, amended: a JSON object with a message gives "error_code: message"
\* when it has an error_code too and the message alone otherwise; a JSON
\* object without a message gives the fixed text "Unknown error", whether it
\* has an error_code or not; a body that is no JSON gives the raw response
\* text, or the HTTP error's own text when the response text is empty.
C11_MessageByBodyShape ==
  \A c \in EndedPrimitives :
    RaisedStatus(c) =>
      LET body == Answer(c).body
          msg == c.outcome.err.message
      IN  /\ (body.tag = "error" /\ body.message # "NONE" /\ body.error_code # "NONE") =>
               msg = [tag |-> "code_and_message", args |-> <<body.error_code, body.message>>]
          /\ (body.tag = "error" /\ body.message # "NONE" /\ body.error_code = "NONE") =>
               msg = [tag |-> "message", args |-> <<body.message>>]
          /\ (body.tag # "text" /\ (body.tag = "error" => body.message = "NONE")) =>
               msg = [tag |-> "unknown_error", args |-> <<>>]
          /\ (body.tag = "text" /\ body.text # "") =>
               msg = [tag |-> "response_text", args |-> <<body.text>>]
          /\ (body.tag = "text" /\ body.text = "") =>
               msg = [tag |-> "http_error", args |-> <<>>]

\* C11's case: a primitive raised on a JSON body that has an error_code and
\* no message, and the error says "Unknown error".
C11_Witness ==
  \E c \in EndedPrimitives :
    /\ RaisedStatus(c)
    /\ Answer(c).body = ErrBody("BAD", "NONE")
    /\ c.outcome.err.message.tag = "unknown_error"

\* Every frame of copy, running or ended, and the outermost call's frame.
CopyFrames == RunningOf("copy") \cup {c.frame : c \in EndedOf("copy")}
OuterFrame == IF stack # <<>> THEN stack[1] ELSE completed[Len(completed)].frame
\* The objects at or beneath src when the call was made.
SourceTree(src) == {p \in DOMAIN initial : IsPrefix(src, p) /\ Exists(initial, p)}

\* C12 as claimed: copy is a walk over the finite tree that was there when
\* the call was made, also when dst lies beneath src: every recursive call
\* copies an object of that tree, the recursion is no deeper than the source
\* tree, and at most five requests are sent for each of its objects (every
\* request being answered as the tree dictates).
C12_CopyWalksTheSourceTree ==
  ((stack # <<>> \/ completed # <<>>) /\ faults = 0) =>
    (OuterFrame.op = "copy" =>
       /\ \A f \in CopyFrames : \A k \in 1..Len(f.calls) : Exists(initial, f.calls[k].path)
       /\ Len(stack) <= 1 + SubtreeDepth(initial, OuterFrame.path)
       /\ Len(log) <= 5 * (1 + Cardinality(SourceTree(OuterFrame.path))))

\* Reachable: copy("/a", "/a/b") went down through the directories it had
\* created itself until the remote refused a path, and ended with that error.
C12_DescentToTheLimit ==
  /\ stack = <<>> /\ completed # <<>> /\ faults = 0
  /\ OuterFrame.op = "copy" /\ IsPrefix(OuterFrame.path, OuterFrame.dest)
  /\ OuterFrame.path # OuterFrame.dest
  /\ result.kind = "raise"
  /\ LastLogged.req.ep = "mkdirs" /\ Len(LastLogged.req.path) > MaxDepth

\* The requests that change the remote tree, and those copy may send.
StateChanging == {"mkdirs", "import", "delete", "move", "permissions-update"}
CopyEndpoints == {"get-status", "export", "list", "mkdirs", "import"}
\* The requests of the log that the remote carried out and that changed it.
Carried == {k \in 1..Len(log) : log[k].req.ep \in StateChanging /\ log[k].resp.applied}

\* C13: while copy(src, dst, overwrite) runs and after it has ended, with
\* success or with an error, every request sent was a get-status, export,
\* list, mkdirs or import, and every mkdirs and import named dst or a path
\* beneath dst; an object that was outside dst's subtree when the call was
\* made is as it was (the one change outside is a missing ancestor of dst that
\* mkdirs has made a directory); and whatever a mkdirs or import created is
\* still there, also after a failure.
C13_CopyWritesOnlyBeneathDst ==
  ((stack # <<>> \/ completed # <<>>) /\ OuterFrame.op = "copy") =>
    LET dst == OuterFrame.dest IN
    /\ \A k \in 1..Len(log) :
         /\ log[k].req.ep \in CopyEndpoints
         /\ log[k].req.ep \in StateChanging =>
              /\ log[k].req.ep \in {"mkdirs", "import"}
              /\ IsPrefix(dst, log[k].req.path)
    /\ \A p \in DOMAIN initial :
         ~IsPrefix(dst, p) =>
           \/ remote[p] = initial[p]
           \/ ~Exists(initial, p) /\ IsPrefix(p, dst) /\ remote[p] = Directory
    /\ \A k \in Carried : Exists(remote, log[k].req.path)

\* C13's case: a copy of a directory imported a notebook beneath dst that
\* was not there before, failed on a later request and ended with the error;
\* the notebook is still there and the source is as it was.
C13_Witness ==
  /\ stack = <<>> /\ completed # <<>>
  /\ OuterFrame.op = "copy" /\ result.kind = "raise"
  /\ ~IsPrefix(OuterFrame.dest, OuterFrame.path)
  /\ Lookup(remote, OuterFrame.path) = Lookup(initial, OuterFrame.path)
  /\ \E k \in Carried :
       /\ k < Len(log)
       /\ log[k].req.ep = "import"
       /\ IsPrefix(OuterFrame.dest, log[k].req.path)
       /\ ~Exists(initial, log[k].req.path)
       /\ Lookup(remote, log[k].req.path).type = "NOTEBOOK"

\* Reachable: copy of a directory to "/b/a" with no "/b" there: mkdirs made
\* the missing ancestor "/b", a path that is not beneath dst.
C13_AncestorCreated ==
  /\ stack = <<>> /\ completed # <<>> /\ faults = 0
  /\ OuterFrame.op = "copy" /\ result = Return(BoolValue(TRUE))
  /\ \E p \in DOMAIN initial :
       /\ p # OuterFrame.dest /\ IsPrefix(p, OuterFrame.dest)
       /\ ~Exists(initial, p) /\ remote[p] = Directory

====
